---- MODULE Spec2Model ----
(***************************************************************************)
(* Model of the S3 metadata proof of concept: the React components         *)
(* ImageList (catalog listing, delete, Athena search) and ImageViewer      *)
(* (description save by copy-in-place, upload of a new version), running   *)
(* against a versioned S3 bucket and an Athena table that indexes the      *)
(* bucket's metadata.  Every async handler is cut at its awaits: one       *)
(* action per resumption.                                                  *)
(***************************************************************************)
EXTENDS Integers, Sequences, FiniteSets, Bags, TLC

\* ------------------------------------------------------------------ bounds
\* Number of version ids the bucket hands out in one behaviour.
MaxVid == 3
\* Number of handler invocations that can be in flight at the same time.
MaxTasks == 2
\* Length of the texts typed in the search box where all of them are tried.
MaxQueryLen == 3
MaxMetaLen == 4

\* ------------------------------------------------------------------ values
\* Object keys, in the (lexicographic) order ListObjectVersions returns them.
KeyOrder == <<"a.jpg", "b.mp4">>
Keys == {KeyOrder[i] : i \in 1..Len(KeyOrder)}
NoKey == "null"
Null == "null"
\* err.message of a rejected request, and the null of an error state
ErrMsgs == {<<"NetworkError">>}
NoError == <<>>
\* err.message of a DeleteObject rejected because the version is gone
NotFound == <<"NotFound">>
\* A version id the bucket never hands out: "no VersionId given".
NoVid == 0

\* Descriptions are character sequences, so that rendering and parsing of
\* the indexed copy can be modelled by what they do.
Descs == { <<>>, <<"x">>, <<"x", ",", "y">> }
NoDescription == <<"No description">>

\* Files the user can pick: body and File.type.
Files == { [body |-> "vid", type |-> "video/mp4"] }
NoFile == [body |-> "null", type |-> "null"]

\* Files the user can pick in the uploader: body, File.type and File.size in
\* MB (a picture, a picture that is too large, a document)
UploaderFiles ==
  { [body |-> "img", type |-> "image/png", size |-> 1],
    [body |-> "big", type |-> "image/png", size |-> 6],
    [body |-> "doc", type |-> "application/pdf", size |-> 1] }
\* What the user types in the uploader's description
UploaderDescs == { <<>>, <<" ">>, <<"x">> }

\* What the user types in the search box
Queries == { <<" ">>, <<"x">> }

\* Every text of quotes and letters the user can type in the search box
QueryInputs == UNION {[1..n -> {"'", "x"}] : n \in 0..MaxQueryLen}

\* const maxAttempts = 30
maxAttempts == 30

Range(s) == {s[i] : i \in 1..Len(s)}

RECURSIVE SelectSeqBy(_, _)
\* s.filter(Test): the subsequence of the elements in the set keep
SelectSeqBy(s, keep) ==
  IF s = <<>> THEN <<>>
  ELSE IF Head(s) \in keep THEN <<Head(s)>> \o SelectSeqBy(Tail(s), keep)
  ELSE SelectSeqBy(Tail(s), keep)

RECURSIVE Flatten(_)
Flatten(ss) == IF ss = <<>> THEN <<>> ELSE Head(ss) \o Flatten(Tail(ss))

\* ------------------------------------------------------------------ bucket
\* The versioned bucket: for each key its versions, oldest first; the last
\* one is the version S3 flags IsLatest.  A version also records the request
\* that wrote it (op) and the Content-Type the key's latest version had just
\* before (was): history the bucket does not serve, kept for the properties.
Written(v, d, c, b, o, w) ==
  [vid |-> v, desc |-> d, ctype |-> c, body |-> b, op |-> o, was |-> w]
Version(v, d, c, b) == Written(v, d, c, b, "init", Null)

HasVersion(s, k, v) == k \in Keys /\ \E i \in 1..Len(s[k]) : s[k][i].vid = v

GetVersion(s, k, v) == s[k][CHOOSE i \in 1..Len(s[k]) : s[k][i].vid = v]

LatestOf(s, k) == s[k][Len(s[k])]

\* ListObjectVersions: every version of every key, with its IsLatest flag
ListObjectVersions(s) ==
  Flatten([j \in 1..Len(KeyOrder) |->
            [i \in 1..Len(s[KeyOrder[j]]) |->
               [Key |-> KeyOrder[j],
                VersionId |-> s[KeyOrder[j]][i].vid,
                IsLatest |-> (i = Len(s[KeyOrder[j]]))]]])

\* DeleteObject with a VersionId: removes exactly that version
DeleteEveryVersion(s, k, v) == [s EXCEPT ![k] = <<>>]
DeleteObject(s, k, v) ==
  [s EXCEPT ![k] = SelectSeqBy(s[k], {x \in Range(s[k]) : x.vid # v})]

\* A write to a key of a bucket with versioning on appends a version
PutOverwriteVersion(s, k, ver) == [s EXCEPT ![k] = <<ver>>]
PutVersion(s, k, ver) == [s EXCEPT ![k] = Append(s[k], ver)]

\* CopyObject onto itself, MetadataDirective REPLACE, no version in
\* CopySource: the body of the latest version, the given type and metadata
CopyObject(s, k, ctype, desc, newVid) ==
  PutVersion(s, k, Written(newVid, desc, ctype, LatestOf(s, k).body, "copy",
                           LatestOf(s, k).ctype))

\* Upload(...).done(): a new version with the file's body
PutObject(s, k, file, desc, newVid) ==
  PutVersion(s, k, Written(newVid, desc, file.type, file.body, "put",
                           IF s[k] = <<>> THEN Null ELSE LatestOf(s, k).ctype))

\* getSignedUrl: the URL names the key and the version it was signed for
\* (NoVid when the GetObjectCommand carried no VersionId)
SignedUrl(k, v) == [key |-> k, vid |-> v]
NoUrl == [key |-> NoKey, vid |-> NoVid]

\* What a GET of a signed URL serves from the bucket s: the named version,
\* or the latest version when the URL names none
UrlTarget(s, u) ==
  IF u.vid = NoVid
  THEN (IF u.key \in Keys /\ s[u.key] # <<>> THEN LatestOf(s, u.key).vid ELSE NoVid)
  ELSE (IF HasVersion(s, u.key, u.vid) THEN u.vid ELSE NoVid)

\* ------------------------------------------------------------------ catalog
\* S3Object
Entry(k, v, d, c, u) ==
  [key |-> k, versionId |-> v, description |-> d, contentType |-> c, url |-> u]
NoEntry == Entry(NoKey, NoVid, <<>>, Null, NoUrl)

\* headResponse.Metadata?.description || "No description"
DescriptionOr(d) == IF d = <<>> THEN NoDescription ELSE d

\* One element of the Promise.all fan-out: the listed (or searched) pair,
\* how far it is, and the entry it resolved to
Item(k, v, d) == [key |-> k, vid |-> v, idesc |-> d, st |-> "pending", entry |-> NoEntry]

\* listResponse.Versions.filter(version => version.IsLatest === true)
AllVersions(versions) == versions
LatestVersions(versions) ==
  SelectSeqBy(versions, {x \in Range(versions) : x.IsLatest})

\* objectsWithMetadata.filter(obj => obj !== null)
AllOrNothing(items) ==
  IF \E x \in Range(items) : x.st # "ok" THEN <<>>
  ELSE [i \in 1..Len(items) |-> items[i].entry]
ValidObjects(items) ==
  LET ok == SelectSeqBy(items, {x \in Range(items) : x.st = "ok"})
  IN [i \in 1..Len(ok) |-> ok[i].entry]


\* ------------------------------------------------------------------ state
VARIABLES
  store,        \* the bucket: key -> versions, oldest first
  index,        \* the rows of the Athena table that indexes the bucket
  nextVid,      \* the next version id the bucket hands out
  activeTab,    \* App: "upload" | "list"
  list,         \* ImageList's useState values
  viewer,       \* ImageViewer's useState values (NoViewer while not mounted)
  tasks,        \* the async handler invocations in flight
  reloadPending,\* the setTimeout(window.location.reload) of the viewer is armed
  lastDone,     \* the handler invocation that returned last, as it ended,
                \* until the next user event
  uploader      \* ImageUploader's useState values

vars == <<store, index, nextVid, activeTab, list, viewer, tasks, reloadPending, lastDone,
          uploader>>

\* One invocation of an async handler: which handler, where it is suspended,
\* whether the component that started it is still mounted, and its locals.
FreeTask ==
  [kind |-> "free", pc |-> "idle", live |-> FALSE,
   key |-> NoKey, vid |-> NoVid, desc |-> <<>>, ctype |-> Null, file |-> NoFile,
   versions |-> <<>>, items |-> <<>>, pre |-> <<>>, newVid |-> NoVid,
   query |-> <<>>, exec |-> "none", queryStatus |-> "none", attempts |-> 0,
   sql |-> <<>>, sleeps |-> 0, raced |-> FALSE, cause |-> NoError, gone |-> {},
   outcome |-> "none"]

\* ImageList: useState initial values
InitList ==
  [objects |-> <<>>, loading |-> TRUE, error |-> NoError, selectedImage |-> NoEntry,
   isModalOpen |-> FALSE, deletingKey |-> Null, searchQuery |-> <<>>,
   isSearching |-> FALSE]

\* ImageViewer: useState initial values, from the props
InitViewer(e) ==
  [description |-> e.description, imageUrl |-> e.url, imageLoading |-> FALSE,
   saving |-> FALSE, saveSuccess |-> FALSE, saveError |-> NoError,
   uploading |-> FALSE, uploadSuccess |-> FALSE, uploadError |-> NoError,
   newFile |-> NoFile]
NoViewer == InitViewer(NoEntry)

\* FormErrors without a message
NoFormErrors == [file |-> NoError, description |-> NoError]
\* verifiedMetadata: null
NoVerified == [fileName |-> NoKey, description |-> <<>>, contentType |-> Null]

\* ImageUploader: useState initial values
InitUploader ==
  [file |-> NoFile, description |-> <<>>, errors |-> NoFormErrors,
   uploading |-> FALSE, uploadSuccess |-> FALSE, uploadError |-> NoError,
   verifiedMetadata |-> NoVerified]

\* The buckets a behaviour can start from: one object, and two objects of
\* which the first has an older version
OneObject ==
  [k \in Keys |-> IF k = KeyOrder[1]
                  THEN <<Version(1, <<"x">>, "image/png", "img")>> ELSE <<>>]
TwoObjects ==
  [k \in Keys |-> IF k = KeyOrder[1]
                  THEN <<Version(1, <<"x">>, "image/png", "img"),
                         Version(2, <<>>, "image/png", "img")>>
                  ELSE <<Version(3, <<"x", ",", "y">>, "video/mp4", "vid")>>]

\* The App as constructed (activeTab "upload", nothing mounted but the
\* uploader), in front of the bucket s
InitWith(s) ==
  /\ store = s
  /\ index = {}
  /\ nextVid = 1 + Cardinality({<<k, i>> \in Keys \X (1..MaxVid) : i <= Len(s[k])})
  /\ activeTab = "upload"
  /\ list = InitList
  /\ viewer = NoViewer
  /\ tasks = EmptyBag
  /\ reloadPending = FALSE
  /\ lastDone = FreeTask
  /\ uploader = InitUploader

Init == InitWith(OneObject)

\* ------------------------------------------------------------------ rendering
\* The table view of ImageList is rendered (none of the early returns)
MainViewWhileSearching(l) ==
  /\ activeTab = "list"
  /\ ~l.loading
  /\ l.error = NoError
  /\ l.objects # <<>>
MainView(l) ==
  /\ activeTab = "list"
  /\ ~l.loading /\ ~l.isSearching
  /\ l.error = NoError
  /\ l.objects # <<>>

\* The modal with the ImageViewer is rendered; its overlay covers the page
ViewerShown(l) == MainView(l) /\ l.isModalOpen /\ l.selectedImage # NoEntry

\* Another handler invocation can be started
HasFree == BagCardinality(tasks) < MaxTasks

\* The invocations ts with one more, with one less, and with t gone on to be
\* task (FreeTask when it is followed no further)
Start(ts, task) == ts (+) SetToBag({task})
Drop(ts, t) == ts (-) SetToBag({t})
Put(ts, t, task) == IF task = FreeTask THEN Drop(ts, t) ELSE Start(Drop(ts, t), task)

\* The suspension points after which a handler still sends a request that
\* changes the bucket or arms a timer (the poll loop of searchAthena arms one
\* for every status request)
EffectAhead == {"delete", "copy", "put", "start", "sleep", "poll"}

\* The handlers of an unmounted component go on, their setState calls do
\* nothing: one whose remaining steps only read is not followed any further
Unmounted(kinds, x) == IF x.kind \in kinds THEN [x EXCEPT !.live = FALSE] ELSE x
Orphan(ts, kinds) ==
  BagOfAll(LAMBDA x : Unmounted(kinds, x),
           [x \in {y \in BagToSet(ts) : y.kind \in kinds => y.pc \in EffectAhead} |-> ts[x]])

\* A handler invocation as it returned
Done(task, outcome) == [task EXCEPT !.pc = "done", !.outcome = outcome]

\* A handler's request has changed the versions of key k: the other handlers
\* in flight for k, ts, are marked as having had a concurrent writer
Raced(ts, k) ==
  BagOfAll(LAMBDA x : IF x.key = k THEN [x EXCEPT !.raced = TRUE] ELSE x, ts)

\* A handleDelete of the mounted list has removed the version v of k: the
\* fetchObjects and searches of the list in flight, ts, are marked as having
\* been overtaken by it
Overtaken(ts, k, v) ==
  BagOfAll(LAMBDA x : IF x.live /\ x.kind \in {"fetch", "delete", "search"}
                      THEN [x EXCEPT !.gone = @ \cup {<<k, v>>}] ELSE x, ts)

\* A handler has sent its last request that changes anything
Retire(task) == IF task.live THEN task ELSE FreeTask

ViewerKinds == {"save", "upload"}
UploaderKinds == {"submit"}
ListKinds == {"fetch", "delete", "search"}

\* A re-render of ImageList with state l: the ImageViewer is unmounted when the
\* modal is not rendered and mounted afresh when it is rendered again
Render(l, v, ts) ==
  /\ list' = l
  /\ viewer' = IF ~ViewerShown(l) THEN NoViewer
               ELSE IF ~ViewerShown(list) THEN InitViewer(l.selectedImage)
               ELSE v
  /\ tasks' = IF ViewerShown(list) /\ ~ViewerShown(l) THEN Orphan(ts, ViewerKinds) ELSE ts

\* setState of a handler: applied only while its component is mounted
ListSet(task, l) == IF task.live THEN l ELSE list
ViewerSet(task, v) == IF task.live THEN v ELSE viewer

\* ------------------------------------------------------------------ App
\* App: click on the List tab unmounts ImageUploader and mounts ImageList,
\* whose effect calls fetchObjects
SwitchToList ==
  /\ activeTab = "upload"
  /\ HasFree
  /\ activeTab' = "list"
  /\ list' = InitList
  /\ viewer' = NoViewer
  /\ uploader' = InitUploader
  /\ tasks' = Start(Orphan(tasks, UploaderKinds),
                    [FreeTask EXCEPT !.kind = "fetch", !.pc = "list", !.live = TRUE])
  /\ UNCHANGED <<index, store, nextVid, reloadPending>>
  /\ lastDone' = FreeTask

\* App: click on the Upload tab unmounts ImageList and mounts ImageUploader
SwitchToUpload ==
  /\ activeTab = "list"
  /\ ~ViewerShown(list)
  /\ activeTab' = "upload"
  /\ list' = InitList
  /\ viewer' = NoViewer
  /\ uploader' = InitUploader
  /\ tasks' = Orphan(tasks, ListKinds \cup ViewerKinds)
  /\ UNCHANGED <<index, store, nextVid, reloadPending>>
  /\ lastDone' = FreeTask

\* ------------------------------------------------------------------ fetchObjects
\* fetchObjects up to its first await: setLoading(true), setError(null), send
CallFetchObjects(l) == [l EXCEPT !.loading = TRUE, !.error = NoError]

\* Refresh and Retry buttons
FetchObjects ==
  /\ activeTab = "list"
  /\ ~list.loading /\ ~list.isSearching
  /\ ~ViewerShown(list)
  /\ HasFree
  /\ Render(CallFetchObjects(list), viewer,
            Start(tasks, [FreeTask EXCEPT !.kind = "fetch", !.pc = "list", !.live = TRUE]))
  /\ UNCHANGED <<uploader, index, store, nextVid, activeTab, reloadPending>>
  /\ lastDone' = FreeTask

\* What runs after fetchObjects returns to the handler that awaited it:
\* handleDelete's finally block
AfterFetch(task, l) ==
  IF task.kind = "delete" THEN [l EXCEPT !.deletingKey = Null] ELSE l

\* fetchObjects has returned and so has its caller
FinishFetch(t, task, l, outcome) ==
  /\ Render(ListSet(task, AfterFetch(task, l)), viewer, Drop(tasks, t))
  /\ lastDone' = Done(task, outcome)

\* err instanceof Error ? err.message : "Failed to fetch objects", for the
\* Error a rejected request throws
FetchErrorGeneric(msg) == <<"Failed to fetch objects">>
FetchError(msg) == msg

\* The response to ListObjectVersions arrives
FetchList(t) ==
  /\ t.pc = "list"
  /\ \/ \E msg \in ErrMsgs :
          FinishFetch(t, [t EXCEPT !.cause = msg],
                      [list EXCEPT !.error = FetchError(msg), !.loading = FALSE],
                      "listfail")
     \/ LET versions == ListObjectVersions(store)
            latest == LatestVersions(versions)
            task == [t EXCEPT
                       !.versions = versions,
                       !.items = [i \in 1..Len(latest) |->
                                    Item(latest[i].Key, latest[i].VersionId, <<>>)]]
        IN IF Len(versions) = 0
           THEN FinishFetch(t, task,
                            [list EXCEPT !.objects = <<>>, !.loading = FALSE], "ok")
           ELSE /\ tasks' = Put(tasks, t, [task EXCEPT !.pc = "enrich"])
                /\ UNCHANGED <<list, viewer, lastDone>>
  /\ UNCHANGED <<uploader, index, store, nextVid, activeTab, reloadPending>>

\* One branch of the fan-out: HeadObject of the listed version, then
\* getSignedUrl for it; a rejection of either makes the branch return null
EnrichListed(it, fail) ==
  IF fail = "none" /\ HasVersion(store, it.key, it.vid)
  THEN LET ver == GetVersion(store, it.key, it.vid)
       IN [it EXCEPT !.st = "ok",
                     !.entry = Entry(it.key, it.vid, DescriptionOr(ver.desc),
                                     ver.ctype, SignedUrl(it.key, it.vid))]
  ELSE [it EXCEPT !.st = "null"]

Failures == {"none", "head", "sign"}

\* A branch of fetchObjects' fan-out resolves; the last one lets Promise.all
\* resolve: setObjects(validObjects), setLoading(false)
FetchItem(t, i) ==
  /\ t.pc = "enrich"
  /\ i \in 1..Len(t.items)
  /\ t.items[i].st = "pending"
  /\ \E fail \in Failures :
       LET task == [t EXCEPT !.items[i] = EnrichListed(@, fail)]
       IN IF \E j \in 1..Len(task.items) : task.items[j].st = "pending"
          THEN /\ tasks' = Put(tasks, t, task)
               /\ UNCHANGED <<list, viewer, lastDone>>
          ELSE FinishFetch(t, task,
                           [list EXCEPT !.objects = ValidObjects(task.items),
                                        !.loading = FALSE], "ok")
  /\ UNCHANGED <<uploader, index, store, nextVid, activeTab, reloadPending>>

\* ------------------------------------------------------------------ handleDelete
\* Click on a row's Delete button, confirmed
HandleDelete(i) ==
  /\ MainView(list) /\ ~ViewerShown(list)
  /\ i \in 1..Len(list.objects)
  /\ list.deletingKey # list.objects[i].key
  /\ HasFree
  /\ Render([list EXCEPT !.deletingKey = list.objects[i].key], viewer,
            Start(tasks, [FreeTask EXCEPT !.kind = "delete", !.pc = "delete", !.live = TRUE,
                                !.key = list.objects[i].key,
                                !.vid = list.objects[i].versionId]))
  /\ UNCHANGED <<uploader, index, store, nextVid, activeTab, reloadPending>>
  /\ lastDone' = FreeTask

\* The rejections a DeleteObject of (k, v) can get: the version being gone
\* already is one the bucket may answer with success or reject
DeleteErrors(s, k, v) ==
  ErrMsgs \cup (IF HasVersion(s, k, v) THEN {} ELSE {NotFound})

\* The response to DeleteObject arrives: on success fetchObjects is called, on
\* a rejection the catch block alerts err.message and the finally block runs
DeleteResponse(t) ==
  /\ t.pc = "delete"
  /\ \/ /\ store' = DeleteObject(store, t.key, t.vid)
        /\ LET raced == IF store' # store THEN Raced(Drop(tasks, t), t.key)
                        ELSE Drop(tasks, t)
               others == IF store' # store /\ t.live
                         THEN Overtaken(raced, t.key, t.vid) ELSE raced
               task == Retire([t EXCEPT !.pc = "list", !.pre = store[t.key]])
           IN Render(ListSet(t, CallFetchObjects(list)), viewer,
                     IF task = FreeTask THEN others ELSE Start(others, task))
        /\ UNCHANGED lastDone
     \/ /\ store' = store
        /\ Render(ListSet(t, [list EXCEPT !.deletingKey = Null]), viewer,
                  Drop(tasks, t))
        /\ \E msg \in DeleteErrors(store, t.key, t.vid) :
             lastDone' = Done([t EXCEPT !.cause = msg], "deletefail")
  /\ UNCHANGED <<uploader, index, nextVid, activeTab, reloadPending>>

\* ------------------------------------------------------------------ Athena
\* The user_metadata cell as GetQueryResults returns it: Athena's rendering
\* of the map, {description=value}
RenderMetadata(d) == <<"{", "description", "=">> \o d \o <<"}">>

\* A row of the indexed table: the version it describes, the description in
\* its user_metadata map and the cell GetQueryResults returns for the map
RowWith(k, v, d, cell) == [key |-> k, vid |-> v, desc |-> d, meta |-> cell]
Row(k, v, d) == RowWith(k, v, d, RenderMetadata(d))

KeyIndex(k) == CHOOSE j \in 1..Len(KeyOrder) : KeyOrder[j] = k

RECURSIVE RowSeq(_)
\* The rows of a result set, in the order of key and version
RowSeq(rows) ==
  IF rows = {} THEN <<>>
  ELSE LET first == CHOOSE r \in rows :
                      \A q \in rows : \/ KeyIndex(r.key) < KeyIndex(q.key)
                                      \/ (r.key = q.key /\ r.vid <= q.vid)
       IN <<first>> \o RowSeq(rows \ {first})

\* s.includes(q), on character sequences
Contains(d, q) ==
  \E i \in 0..(Len(d) - Len(q)) : \A j \in 1..Len(q) : d[i + j] = q[j]

\* query.trim()
RECURSIVE TrimLeft(_)
TrimLeft(q) == IF q # <<>> /\ Head(q) = " " THEN TrimLeft(Tail(q)) ELSE q
RECURSIVE TrimRight(_)
TrimRight(q) ==
  IF q # <<>> /\ q[Len(q)] = " " THEN TrimRight(SubSeq(q, 1, Len(q) - 1)) ELSE q
Trim(q) == TrimRight(TrimLeft(q))

\* !query.trim()
IsBlankEmptyOnly(q) == q = <<>>
IsBlank(q) == Trim(q) = <<>>

RECURSIVE EscapeQuotes(_)
\* query.replace(/'/g, "''")
NoEscape(q) == q
EscapeQuotes(q) ==
  IF q = <<>> THEN <<>>
  ELSE (IF Head(q) = "'" THEN <<"'", "'">> ELSE <<Head(q)>>) \o EscapeQuotes(Tail(q))

\* queryString: the template around the escaped query, character by
\* character from the quote that opens the LIKE pattern to the one that
\* closes it
QueryString(q) ==
  <<"SELECT * FROM s3_metadata WHERE user_metadata['description'] like ", "'", "%">>
    \o EscapeQuotes(q)
    \o <<"%", "'", " AND is_delete_marker = false">>

\* WHERE user_metadata['description'] like '%query%': the rows the query selects
SelectRows(rows, q) == {r \in rows : Contains(r.desc, q)}

RECURSIVE TakeValue(_)
\* ([^,}]+) : the characters up to the next comma or closing brace
TakeValue(str) ==
  IF str = <<>> \/ Head(str) \in {",", "}"} THEN <<>>
  ELSE <<Head(str)>> \o TakeValue(Tail(str))

RECURSIVE MatchDescription(_)
\* userMetadataStr.match(/description\s*=\s*([^,}]+)/): the captured group of
\* the first match, <<>> when nothing matches
MatchDescription(str) ==
  IF Len(str) < 2 THEN <<>>
  ELSE IF Head(str) = "description" /\ TrimLeft(Tail(str)) # <<>>
          /\ Head(TrimLeft(Tail(str))) = "="
       THEN LET rest == Tail(TrimLeft(Tail(str)))
                \* \s* gives a blank back when the value would be empty without it
                val == IF TakeValue(TrimLeft(rest)) # <<>> THEN TakeValue(TrimLeft(rest))
                       ELSE TakeValue(rest)
            IN IF val # <<>> THEN val ELSE MatchDescription(Tail(str))
       ELSE MatchDescription(Tail(str))

\* The string literals of a JSON text, each one token, and what they and the
\* literal null denote when read as a description
JsonStrings == {"\"description\"", "\"x\"", "\"\""}
Unquote(tok) ==
  CASE tok = "\"description\"" -> <<"description">>
    [] tok = "\"x\"" -> <<"x">>
    [] OTHER -> <<>>

RECURSIVE SkipWs(_, _)
\* The first position from i on that holds no blank
SkipWs(str, i) ==
  IF i <= Len(str) /\ str[i] = " " THEN SkipWs(str, i + 1) ELSE i

RECURSIVE ValueEnd(_, _)
RECURSIVE MembersEnd(_, _)
\* JSON.parse reading a value at position i: the position after the value, 0
\* when there is a SyntaxError. The values are string literals, null and
\* objects.
ValueEnd(str, i) ==
  IF i > Len(str) THEN 0
  ELSE IF str[i] \in JsonStrings \cup {"null"} THEN i + 1
  ELSE IF str[i] = "{"
       THEN LET j == SkipWs(str, i + 1)
            IN IF j <= Len(str) /\ str[j] = "}" THEN j + 1
               ELSE MembersEnd(str, j)
  ELSE 0
\* JSON.parse reading the members of an object from the one at position j on:
\* the position after the closing brace, 0 when there is a SyntaxError
MembersEnd(str, j) ==
  IF j > Len(str) \/ str[j] \notin JsonStrings THEN 0
  ELSE LET c == SkipWs(str, j + 1)
       IN IF c > Len(str) \/ str[c] # ":" THEN 0
          ELSE LET e == ValueEnd(str, SkipWs(str, c + 1))
                   n == SkipWs(str, e)
               IN IF e = 0 \/ n > Len(str) THEN 0
                  ELSE IF str[n] = "}" THEN n + 1
                  ELSE IF str[n] = "," THEN MembersEnd(str, SkipWs(str, n + 1))
                  ELSE 0

\* JSON.parse(userMetadataStr) returns
IsJson(str) ==
  LET e == ValueEnd(str, SkipWs(str, 1))
  IN e # 0 /\ SkipWs(str, e) = Len(str) + 1

\* undefined
Undefined == <<"undefined">>

RECURSIVE MemberNamed(_, _, _, _)
\* The value of the last member called name among the members of an object
\* from position j on, found the value when there is none: a string literal
\* is its text, null is falsy as the empty text is, an object is its tokens
MemberNamed(str, j, name, found) ==
  LET a == SkipWs(str, SkipWs(str, j + 1) + 1)
      e == ValueEnd(str, a)
      n == SkipWs(str, e)
      value == IF str[a] \in JsonStrings \cup {"null"} THEN Unquote(str[a])
               ELSE SubSeq(str, a, e - 1)
      now == IF str[j] = name THEN value ELSE found
  IN IF str[n] = "," THEN MemberNamed(str, SkipWs(str, n + 1), name, now)
     ELSE now

\* userMetadata.description, of a user_metadata string that is JSON
JsonDescription(str) ==
  LET i == SkipWs(str, 1)
      j == SkipWs(str, i + 1)
  IN IF str[i] # "{" \/ str[j] = "}" THEN Undefined
     ELSE MemberNamed(str, j, "\"description\"", Undefined)

\* The try block ends without a throw: JSON.parse returns and the result is
\* not null, of which reading .description throws a TypeError
TryReturns(str) == IsJson(str) /\ str[SkipWs(str, 1)] # "null"

\* The description searchAthena extracts from a row's user_metadata: without
\* the catch block's regular expression, and as the code has it
ParseJsonOnly(str) ==
  IF TryReturns(str)
  THEN (IF JsonDescription(str) \in {Undefined, <<>>} THEN NoDescription
        ELSE JsonDescription(str))
  ELSE NoDescription
ParseDescription(str) ==
  IF TryReturns(str)
  THEN (IF JsonDescription(str) \in {Undefined, <<>>} THEN NoDescription
        ELSE JsonDescription(str))
  ELSE IF MatchDescription(str) # <<>> THEN Trim(MatchDescription(str))
  ELSE NoDescription

\* `Athena query failed: ${StateChangeReason || `Query failed with status: ${queryStatus}`}`
NoReason == "null"
Reasons == {"SYNTAX_ERROR"}
QueryErrorPlain(reason, status) == <<"Athena query failed: ", "Query failed">>
QueryError(reason, status) ==
  IF reason # NoReason THEN <<"Athena query failed: ", reason>>
  ELSE <<"Athena query failed: ", "Query failed with status: ", status>>

Pending == {"QUEUED", "RUNNING"}
\* The states a query execution can be in after being in state e
Reach(e) ==
  CASE e = "QUEUED" -> {"QUEUED", "RUNNING", "SUCCEEDED", "FAILED", "CANCELLED"}
    [] e = "RUNNING" -> {"RUNNING", "SUCCEEDED", "FAILED", "CANCELLED"}
    [] OTHER -> {e}

\* The table catches up with a version of the bucket
IndexSync(k, v) ==
  /\ HasVersion(store, k, v)
  /\ Row(k, v, GetVersion(store, k, v).desc) \notin index
  /\ index' = index \cup {Row(k, v, GetVersion(store, k, v).desc)}
  /\ UNCHANGED <<uploader, store, nextVid, activeTab, list, viewer, tasks, reloadPending, lastDone>>

\* Typing in the search box
SetSearchQuery(q) ==
  /\ MainView(list) /\ ~ViewerShown(list)
  /\ q # list.searchQuery
  /\ list' = [list EXCEPT !.searchQuery = q]
  /\ lastDone' = FreeTask
  /\ UNCHANGED <<uploader, index, store, nextVid, activeTab, viewer, tasks, reloadPending>>

\* handleClearSearch: the Clear button
HandleClearSearch ==
  /\ MainView(list) /\ ~ViewerShown(list)
  /\ list.searchQuery # <<>>
  /\ HasFree
  /\ Render(CallFetchObjects([list EXCEPT !.searchQuery = <<>>]), viewer,
            Start(tasks, [FreeTask EXCEPT !.kind = "fetch", !.pc = "list", !.live = TRUE]))
  /\ lastDone' = FreeTask
  /\ UNCHANGED <<uploader, index, store, nextVid, activeTab, reloadPending>>

\* handleSearch: the form is submitted; searchAthena runs up to its first
\* await, which for a blank query is the one of fetchObjects
HandleSearch ==
  /\ MainView(list) /\ ~ViewerShown(list)
  /\ HasFree
  /\ LET task == [FreeTask EXCEPT !.kind = "search", !.live = TRUE,
                                  !.query = list.searchQuery]
     IN IF IsBlank(list.searchQuery)
        THEN Render(CallFetchObjects(list), viewer,
                    Start(tasks, [task EXCEPT !.pc = "list"]))
        ELSE Render([list EXCEPT !.isSearching = TRUE, !.error = NoError], viewer,
                    Start(tasks, [task EXCEPT !.pc = "start", !.queryStatus = "RUNNING",
                                              !.sql = QueryString(list.searchQuery)]))
  /\ lastDone' = FreeTask
  /\ UNCHANGED <<uploader, index, store, nextVid, activeTab, reloadPending>>

\* searchAthena's catch and finally blocks: setError(err.message),
\* setIsSearching(false)
SearchFailed(t, task, msg, outcome) ==
  /\ Render(ListSet(task, [list EXCEPT !.error = msg, !.isSearching = FALSE]),
            viewer, Drop(tasks, t))
  /\ lastDone' = Done(task, outcome)

\* The response to StartQueryExecution arrives: with an execution id the
\* poll loop is entered and its first sleep started
SearchStartResponse(t) ==
  /\ t.pc = "start"
  /\ \/ /\ tasks' = Put(tasks, t, [t EXCEPT !.pc = "sleep", !.exec = "QUEUED",
                                                   !.sleeps = @ + 1])
        /\ UNCHANGED <<list, viewer, lastDone>>
     \/ SearchFailed(t, t, <<"Failed to start Athena query">>, "startfail")
     \/ \E msg \in ErrMsgs : SearchFailed(t, t, msg, "startfail")
  /\ UNCHANGED <<uploader, index, store, nextVid, activeTab, reloadPending>>

\* The 1000 ms timer of the poll loop fires: GetQueryExecution is sent
SearchSleepDone(t) ==
  /\ t.pc = "sleep"
  /\ tasks' = Put(tasks, t, [t EXCEPT !.pc = "poll"])
  /\ UNCHANGED <<uploader, index, store, nextVid, activeTab, list, viewer, reloadPending, lastDone>>

\* while ((queryStatus === "RUNNING" || queryStatus === "QUEUED") && attempts < maxAttempts)
LoopGoesOnUnbounded(status, attempts) == status \in Pending
LoopGoesOnUnlessSucceeded(status, attempts) ==
  status # "SUCCEEDED" /\ attempts < maxAttempts
LoopGoesOn(status, attempts) == status \in Pending /\ attempts < maxAttempts

\* The response to the loop's GetQueryExecution arrives: the loop goes on with
\* the next sleep, or ends and the next request is sent
SearchPollResponse(t) ==
  /\ t.pc = "poll"
  /\ \/ \E msg \in ErrMsgs : SearchFailed(t, t, msg, "pollthrow")
     \/ \E e \in Reach(t.exec) : \E status \in {e, "UNKNOWN"} :
          LET task == [t EXCEPT !.exec = e, !.queryStatus = status,
                                       !.attempts = @ + 1]
          IN /\ tasks' = Put(tasks, t, IF LoopGoesOn(status, task.attempts)
                  THEN [task EXCEPT !.pc = "sleep", !.sleeps = @ + 1]
                  ELSE IF status # "SUCCEEDED" THEN Retire([task EXCEPT !.pc = "final"])
                  ELSE Retire([task EXCEPT !.pc = "results"]))
             /\ UNCHANGED <<list, viewer, lastDone>>
  /\ UNCHANGED <<uploader, index, store, nextVid, activeTab, reloadPending>>

\* The response to the GetQueryExecution sent for the error details arrives:
\* it reports the state the execution is in by then, with a StateChangeReason
\* or without when that state is FAILED or CANCELLED
SearchFinalResponse(t) ==
  /\ t.pc = "final"
  /\ \/ \E msg \in ErrMsgs : SearchFailed(t, t, msg, "finalthrow")
     \/ \E e \in Reach(t.exec) :
          \E reason \in (IF e \in {"FAILED", "CANCELLED"} THEN Reasons ELSE {}) \cup {NoReason} :
            SearchFailed(t, [t EXCEPT !.exec = e],
                         QueryError(reason, t.queryStatus), "queryfail")
  /\ UNCHANGED <<uploader, index, store, nextVid, activeTab, reloadPending>>

\* rows.slice(1).map(...): the (key, versionId, description) of each data row
SearchResults(rows) ==
  [i \in 1..Len(rows) |->
     Item(rows[i].key, rows[i].vid, ParseDescription(rows[i].meta))]

\* if (rows.length <= 1): setObjects([]), setIsSearching(false), return
EmptyResultKeeps(l) == [l EXCEPT !.isSearching = FALSE]
EmptyResult(l) == [l EXCEPT !.objects = <<>>, !.isSearching = FALSE]

\* The response to GetQueryResults arrives: no data row sets the empty
\* catalog, otherwise the join with the bucket is fanned out
SearchResultsResponse(t) ==
  /\ t.pc = "results"
  /\ \/ \E msg \in ErrMsgs : SearchFailed(t, t, msg, "resultsthrow")
     \/ LET rows == RowSeq(SelectRows(index, t.query))
            task == [t EXCEPT !.items = SearchResults(rows)]
        IN IF Len(rows) = 0
           THEN /\ Render(ListSet(task, EmptyResult(list)), viewer, Drop(tasks, t))
                /\ lastDone' = Done(task, "empty")
           ELSE /\ tasks' = Put(tasks, t, [task EXCEPT !.pc = "join"])
                /\ UNCHANGED <<list, viewer, lastDone>>
  /\ UNCHANGED <<uploader, index, store, nextVid, activeTab, reloadPending>>

\* finalDescription: the description parsed from the row unless it is empty
\* or "No description", then the one of the bucket
LiveDescription(rowDesc, liveDesc) == DescriptionOr(liveDesc)
FinalDescription(rowDesc, liveDesc) ==
  IF rowDesc # <<>> /\ rowDesc # NoDescription THEN rowDesc
  ELSE DescriptionOr(liveDesc)

\* One branch of the search join: HeadObject of the row's version, then
\* getSignedUrl for it; a rejection of either makes the branch return null
EnrichRow(it, fail) ==
  IF fail = "none" /\ HasVersion(store, it.key, it.vid)
  THEN LET ver == GetVersion(store, it.key, it.vid)
       IN [it EXCEPT !.st = "ok",
                     !.entry = Entry(it.key, it.vid,
                                     FinalDescription(it.idesc, ver.desc),
                                     ver.ctype, SignedUrl(it.key, it.vid))]
  ELSE [it EXCEPT !.st = "null"]

\* A branch of the search join resolves; the last one lets Promise.all
\* resolve: setObjects(validObjects), then the finally block
SearchItem(t, i) ==
  /\ t.pc = "join"
  /\ i \in 1..Len(t.items)
  /\ t.items[i].st = "pending"
  /\ \E fail \in Failures :
       LET task == [t EXCEPT !.items[i] = EnrichRow(@, fail)]
       IN IF \E j \in 1..Len(task.items) : task.items[j].st = "pending"
          THEN /\ tasks' = Put(tasks, t, task)
               /\ UNCHANGED <<list, viewer, lastDone>>
          ELSE /\ Render(ListSet(task, [list EXCEPT !.objects = ValidObjects(task.items),
                                                    !.isSearching = FALSE]),
                         viewer, Drop(tasks, t))
               /\ lastDone' = Done(task, "joined")
  /\ UNCHANGED <<uploader, index, store, nextVid, activeTab, reloadPending>>

\* ------------------------------------------------------------------ modal
\* handleRowClick
HandleRowClick(i) ==
  /\ MainView(list) /\ ~ViewerShown(list)
  /\ i \in 1..Len(list.objects)
  /\ Render([list EXCEPT !.selectedImage = list.objects[i], !.isModalOpen = TRUE],
            viewer, tasks)
  /\ UNCHANGED <<uploader, index, store, nextVid, activeTab, reloadPending>>
  /\ lastDone' = FreeTask

\* closeModal
CloseModal ==
  /\ ViewerShown(list)
  /\ Render([list EXCEPT !.selectedImage = NoEntry, !.isModalOpen = FALSE],
            viewer, tasks)
  /\ UNCHANGED <<uploader, index, store, nextVid, activeTab, reloadPending>>
  /\ lastDone' = FreeTask

\* ------------------------------------------------------------------ ImageViewer
\* handleDescriptionChange: typing in the textarea
HandleDescriptionChange(d) ==
  /\ ViewerShown(list)
  /\ d # viewer.description
  /\ viewer' = [viewer EXCEPT !.description = d, !.saveSuccess = FALSE,
                              !.saveError = NoError]
  /\ UNCHANGED <<uploader, index, store, nextVid, activeTab, list, tasks, reloadPending>>
  /\ lastDone' = FreeTask

\* The Save Description button is enabled
SaveEnabled ==
  /\ ViewerShown(list)
  /\ ~viewer.saving
  /\ viewer.description # list.selectedImage.description

\* The ContentType handleSaveDescription puts in its CopyObjectCommand: the
\* contentType prop
CopyContentType == list.selectedImage.contentType

\* handleSaveDescription up to its first await: the CopyObjectCommand is built
\* from the props and the textarea and sent
HandleSaveDescription ==
  /\ SaveEnabled
  /\ HasFree
  /\ viewer' = [viewer EXCEPT !.saving = TRUE, !.saveSuccess = FALSE,
                              !.saveError = NoError]
  /\ tasks' = Start(tasks, [FreeTask EXCEPT !.kind = "save", !.pc = "copy", !.live = TRUE,
                                  !.key = list.selectedImage.key,
                                  !.vid = list.selectedImage.versionId,
                                  !.ctype = CopyContentType,
                                  !.desc = viewer.description])
  /\ UNCHANGED <<uploader, index, store, nextVid, activeTab, list, reloadPending>>
  /\ lastDone' = FreeTask

\* error instanceof Error ? error.message : "Failed to save description", for
\* the Error a rejected request throws
SaveErrorGeneric(msg) == <<"Failed to save description">>
SaveError(msg) == msg

\* The catch and finally blocks of handleSaveDescription, task.cause being
\* the message of what was thrown
SaveFailed(t, task, v, outcome) ==
  /\ viewer' = ViewerSet(task, [v EXCEPT !.saveError = SaveError(task.cause),
                                         !.saving = FALSE])
  /\ tasks' = Drop(tasks, t)
  /\ lastDone' = Done(task, outcome)

\* The response to CopyObject arrives; on success the 500 ms timer is started
SaveCopyResponse(t) ==
  /\ t.pc = "copy"
  /\ \/ /\ store[t.key] # <<>>
        /\ nextVid <= MaxVid
        /\ store' = CopyObject(store, t.key, t.ctype, t.desc,
                               nextVid)
        /\ nextVid' = nextVid + 1
        /\ LET task == Retire([t EXCEPT !.pc = "delay", !.pre = store[t.key],
                                         !.newVid = nextVid])
           IN tasks' = IF task = FreeTask THEN Raced(Drop(tasks, t), t.key)
                       ELSE Start(Raced(Drop(tasks, t), t.key), task)
        /\ UNCHANGED <<viewer, lastDone>>
     \/ /\ \E msg \in ErrMsgs :
             SaveFailed(t, [t EXCEPT !.cause = msg], viewer, "copyfail")
        /\ UNCHANGED <<store, nextVid>>
  /\ UNCHANGED <<uploader, index, activeTab, list, reloadPending>>

\* The 500 ms timer fires: refreshImageUrl is called and runs up to its await
SaveDelayDone(t) ==
  /\ t.pc = "delay"
  /\ viewer' = ViewerSet(t, [viewer EXCEPT !.imageLoading = TRUE])
  /\ tasks' = Put(tasks, t, [t EXCEPT !.pc = "refresh"])
  /\ UNCHANGED <<uploader, index, store, nextVid, activeTab, list, reloadPending, lastDone>>

\* The GetObjectCommand refreshImageUrl signs: Key only
RefreshedUrl(task) == SignedUrl(task.key, NoVid)

\* saveSuccess is set after refreshImageUrl has resolved
SuccessAlways(ok) == TRUE
ReportSuccess(ok) == ok

\* getSignedUrl of refreshImageUrl settles: setImageUrl and setSaveSuccess(true),
\* or the rethrown error reaches handleSaveDescription's catch
SaveRefreshResponse(t) ==
  /\ t.pc = "refresh"
  /\ \E ok \in BOOLEAN :
       LET v1 == [viewer EXCEPT !.imageLoading = FALSE]
       IN IF ReportSuccess(ok)
          THEN /\ viewer' = ViewerSet(t,
                              [v1 EXCEPT !.imageUrl = IF ok THEN RefreshedUrl(t)
                                                       ELSE @,
                                         !.saveSuccess = TRUE, !.saving = FALSE])
               /\ tasks' = Drop(tasks, t)
               /\ lastDone' = Done(t, IF ok THEN "ok" ELSE "refreshfail")
          ELSE \E msg \in ErrMsgs :
                 SaveFailed(t, [t EXCEPT !.cause = msg], v1, "refreshfail")
  /\ UNCHANGED <<uploader, index, store, nextVid, activeTab, list, reloadPending>>

\* handleFileChange: a file is picked in the viewer's file input
HandleFileChange(f) ==
  /\ ViewerShown(list)
  /\ f # viewer.newFile
  /\ viewer' = [viewer EXCEPT !.newFile = f, !.uploadSuccess = FALSE,
                              !.uploadError = NoError]
  /\ UNCHANGED <<uploader, index, store, nextVid, activeTab, list, tasks, reloadPending>>
  /\ lastDone' = FreeTask

\* if (!newFile) { setUploadError("Please select a file to upload"); return; }
NoFileMessage == <<"Please select a file to upload">>
FilePicked(file) == file # NoFile

\* handleUploadNewVersion, on the submit event of the viewer's form, up to its
\* first await: without a file it sets the message and returns
HandleUploadNewVersion ==
  /\ ViewerShown(list)
  /\ LET task == [FreeTask EXCEPT !.kind = "upload", !.live = TRUE,
                                  !.key = list.selectedImage.key,
                                  !.vid = list.selectedImage.versionId,
                                  !.file = viewer.newFile,
                                  !.desc = viewer.description]
     IN IF ~FilePicked(viewer.newFile)
        THEN /\ viewer' = [viewer EXCEPT !.uploadError = NoFileMessage]
             /\ tasks' = tasks
             /\ lastDone' = Done(task, "invalid")
        ELSE /\ ~viewer.uploading
             /\ HasFree
             /\ viewer' = [viewer EXCEPT !.uploading = TRUE, !.uploadSuccess = FALSE,
                                         !.uploadError = NoError]
             /\ tasks' = Start(tasks, [task EXCEPT !.pc = "put"])
             /\ lastDone' = FreeTask
  /\ UNCHANGED <<uploader, index, store, nextVid, activeTab, list, reloadPending>>

\* upload.done() settles: on success the reload timer is armed
UploadResponse(t) ==
  /\ t.kind = "upload" /\ t.pc = "put"
  /\ \/ /\ nextVid <= MaxVid
        /\ store' = PutObject(store, t.key, t.file, t.desc, nextVid)
        /\ nextVid' = nextVid + 1
        /\ viewer' = ViewerSet(t, [viewer EXCEPT !.uploadSuccess = TRUE,
                                                        !.newFile = NoFile,
                                                        !.uploading = FALSE])
        /\ reloadPending' = TRUE
        /\ lastDone' = Done([t EXCEPT !.pre = store[t.key],
                                             !.newVid = nextVid], "ok")
     \/ /\ viewer' = ViewerSet(t,
                       [viewer EXCEPT !.uploadError = CHOOSE m \in ErrMsgs : TRUE,
                                      !.uploading = FALSE])
        /\ lastDone' = Done(t, "putfail")
        /\ UNCHANGED <<store, nextVid, reloadPending>>
  /\ tasks' = IF store' # store THEN Raced(Drop(tasks, t), t.key) ELSE Drop(tasks, t)
  /\ UNCHANGED <<uploader, index, activeTab, list>>

\* ------------------------------------------------------------------ ImageUploader
SUPPORTED_IMAGE_TYPES ==
  {"image/jpeg", "image/jpg", "image/png", "image/gif", "image/webp",
   "image/svg+xml", "image/bmp", "image/tiff", "image/heic", "image/heif"}
SUPPORTED_VIDEO_TYPES ==
  {"video/mp4", "video/mpeg", "video/ogg", "video/webm", "video/quicktime",
   "video/x-msvideo", "video/x-matroska", "video/3gpp", "video/3gpp2"}
\* MAX_IMAGE_SIZE, in MB
MAX_IMAGE_SIZE == 5

\* validateFile, for a file that is no video: newErrors.file, NoError when the
\* file passes
ValidateFile(file) ==
  IF file.type \notin SUPPORTED_IMAGE_TYPES \cup SUPPORTED_VIDEO_TYPES
  THEN <<"Unsupported file type. Please upload an image or video.">>
  ELSE IF file.type \in SUPPORTED_IMAGE_TYPES /\ file.size > MAX_IMAGE_SIZE
  THEN <<"Image size must be less than 5MB">>
  ELSE NoError

\* validateForm: newErrors
ValidateFormNothing(fd) == NoFormErrors
ValidateForm(fd) ==
  [file |-> IF fd.file = NoFile THEN NoFileMessage ELSE NoError,
   description |-> IF IsBlank(fd.description)
                   THEN <<"Please provide a description">> ELSE NoError]

\* What handleFileChange and handleDescriptionChange reset
Touched(u) ==
  [u EXCEPT !.uploadSuccess = FALSE, !.uploadError = NoError,
            !.verifiedMetadata = NoVerified]

\* handleFileChange of the uploader: the file is set and, when there is one,
\* validateFile sets the errors
UploaderFileChange(f) ==
  /\ activeTab = "upload"
  /\ f # uploader.file
  /\ uploader' =
       [Touched(uploader) EXCEPT
          !.file = f,
          !.errors = IF f = NoFile THEN [@ EXCEPT !.file = NoError]
                     ELSE [file |-> ValidateFile(f), description |-> NoError]]
  /\ lastDone' = FreeTask
  /\ UNCHANGED <<index, store, nextVid, activeTab, list, viewer, tasks, reloadPending>>

\* handleDescriptionChange of the uploader
UploaderDescriptionChange(d) ==
  /\ activeTab = "upload"
  /\ d # uploader.description
  /\ uploader' = [Touched(uploader) EXCEPT !.description = d,
                                           !.errors.description = NoError]
  /\ lastDone' = FreeTask
  /\ UNCHANGED <<index, store, nextVid, activeTab, list, viewer, tasks, reloadPending>>

\* handleSubmit up to the await of upload.done(): validateForm, the test of
\* the file, validateFile, and then the Upload is sent
HandleSubmit ==
  /\ activeTab = "upload"
  /\ ~uploader.uploading
  /\ LET u == [uploader EXCEPT !.uploadSuccess = FALSE, !.uploadError = NoError]
         errs == ValidateForm(uploader)
         task == [FreeTask EXCEPT !.kind = "submit", !.live = TRUE,
                                  !.file = uploader.file,
                                  !.desc = uploader.description]
     IN IF errs # NoFormErrors
        THEN /\ uploader' = [u EXCEPT !.errors = errs]
             /\ tasks' = tasks
             /\ lastDone' = Done(task, "invalid")
        ELSE IF uploader.file = NoFile
        THEN /\ uploader' = [u EXCEPT !.errors = errs]
             /\ tasks' = tasks
             /\ lastDone' = Done(task, "nofile")
        ELSE IF ValidateFile(uploader.file) # NoError
        THEN /\ uploader' = [u EXCEPT !.errors = [file |-> ValidateFile(uploader.file),
                                                  description |-> NoError]]
             /\ tasks' = tasks
             /\ lastDone' = Done(task, "badfile")
        ELSE /\ HasFree
             /\ uploader' = [u EXCEPT !.errors = NoFormErrors, !.uploading = TRUE]
             /\ tasks' = Start(tasks, [task EXCEPT !.pc = "put"])
             /\ lastDone' = FreeTask
  /\ UNCHANGED <<index, store, nextVid, activeTab, list, viewer, reloadPending>>

\* setState of a handler of the uploader: applied only while it is mounted
UploaderSet(task, u) == IF task.live THEN u ELSE uploader

\* The key onSave makes up, `${Date.now()}-${file.name}`: one the bucket has
\* no version of
FreshKeys(s) == {k \in Keys : s[k] = <<>>}

\* The catch and finally blocks of handleSubmit
SubmitFailed(t, msg, outcome) ==
  /\ uploader' = UploaderSet(t, [uploader EXCEPT !.uploadError = msg,
                                                 !.uploading = FALSE])
  /\ tasks' = Drop(tasks, t)
  /\ lastDone' = Done([t EXCEPT !.cause = msg], outcome)

\* upload.done() of onSave settles: on success verifyMetadata sends its
\* HeadObject
SubmitPutResponse(t) ==
  /\ t.kind = "submit" /\ t.pc = "put"
  /\ \/ /\ nextVid <= MaxVid
        /\ \E k \in FreshKeys(store) :
             /\ store' = PutObject(store, k, t.file, t.desc, nextVid)
             /\ tasks' = Put(tasks, t, Retire([t EXCEPT !.pc = "verify", !.key = k,
                                                        !.newVid = nextVid]))
        /\ nextVid' = nextVid + 1
        /\ UNCHANGED <<uploader, lastDone>>
     \/ /\ \E msg \in ErrMsgs : SubmitFailed(t, msg, "putfail")
        /\ UNCHANGED <<store, nextVid>>
  /\ UNCHANGED <<index, activeTab, list, viewer, reloadPending>>

\* The HeadObject of verifyMetadata (Key only) settles: the form is reset and
\* the metadata of the key's latest version shown, or the error is shown
SubmitVerifyResponse(t) ==
  /\ t.pc = "verify"
  /\ \/ /\ store[t.key] # <<>>
        /\ uploader' = UploaderSet(t,
             [uploader EXCEPT !.uploadSuccess = TRUE,
                              !.verifiedMetadata =
                                 [fileName |-> t.key,
                                  description |-> LatestOf(store, t.key).desc,
                                  contentType |-> LatestOf(store, t.key).ctype],
                              !.file = NoFile, !.description = <<>>,
                              !.uploading = FALSE])
        /\ tasks' = Drop(tasks, t)
        /\ lastDone' = Done(t, "ok")
     \/ \E msg \in ErrMsgs : SubmitFailed(t, msg, "verifyfail")
  /\ UNCHANGED <<index, store, nextVid, activeTab, list, viewer, reloadPending>>

\* The 1500 ms timer fires: window.location.reload() starts the App afresh;
\* the requests in flight are aborted with the page
Reload ==
  /\ reloadPending
  /\ reloadPending' = FALSE
  /\ activeTab' = "upload"
  /\ list' = InitList
  /\ viewer' = NoViewer
  /\ uploader' = InitUploader
  /\ tasks' = EmptyBag
  /\ UNCHANGED <<index, store, nextVid>>
  /\ lastDone' = FreeTask

AppActions ==
  \/ SwitchToList
  \/ SwitchToUpload
  \/ Reload

ListActions ==
  \/ FetchObjects
  \/ \E t \in BagToSet(tasks) : FetchList(t)
  \/ \E t \in BagToSet(tasks), i \in 1..MaxVid : FetchItem(t, i)

DeleteActions ==
  \/ \E i \in 1..Len(KeyOrder) : HandleDelete(i)
  \/ \E t \in BagToSet(tasks) : DeleteResponse(t)

ModalActions ==
  \/ \E i \in 1..Len(KeyOrder) : HandleRowClick(i)
  \/ CloseModal

SaveActions ==
  \/ \E d \in Descs : HandleDescriptionChange(d)
  \/ HandleSaveDescription
  \/ \E t \in BagToSet(tasks) : SaveCopyResponse(t)
  \/ \E t \in BagToSet(tasks) : SaveDelayDone(t)
  \/ \E t \in BagToSet(tasks) : SaveRefreshResponse(t)

UploadActions ==
  \/ \E f \in Files : HandleFileChange(f)
  \/ HandleUploadNewVersion
  \/ \E t \in BagToSet(tasks) : UploadResponse(t)

UploaderActions ==
  \/ \E f \in UploaderFiles \cup {NoFile} : UploaderFileChange(f)
  \/ \E d \in UploaderDescs : UploaderDescriptionChange(d)
  \/ HandleSubmit
  \/ \E t \in BagToSet(tasks) : SubmitPutResponse(t)
  \/ \E t \in BagToSet(tasks) : SubmitVerifyResponse(t)

SearchActions ==
  \/ \E q \in Queries : SetSearchQuery(q)
  \/ HandleClearSearch
  \/ HandleSearch
  \/ \E t \in BagToSet(tasks) : SearchStartResponse(t)
  \/ \E t \in BagToSet(tasks) : SearchSleepDone(t)
  \/ \E t \in BagToSet(tasks) : SearchPollResponse(t)
  \/ \E t \in BagToSet(tasks) : SearchFinalResponse(t)
  \/ \E t \in BagToSet(tasks) : SearchResultsResponse(t)
  \/ \E t \in BagToSet(tasks), i \in 1..MaxVid : SearchItem(t, i)

IndexActions == \E k \in Keys, v \in 1..MaxVid : IndexSync(k, v)

Next ==
  \/ AppActions
  \/ ListActions
  \/ DeleteActions
  \/ ModalActions
  \/ SaveActions
  \/ UploadActions
  \/ UploaderActions
  \/ SearchActions
  \/ IndexActions

Spec == Init /\ [][Next]_vars

\* The catalog side alone: listing and deleting, in front of two objects
NextList == SwitchToList \/ SwitchToUpload \/ ListActions \/ DeleteActions
SpecList == InitWith(TwoObjects) /\ [][NextList]_vars

\* The viewer side: listing, the modal, saving and uploading
NextViewer == SwitchToList \/ Reload \/ ListActions \/ ModalActions \/ SaveActions \/ UploadActions
SpecViewer == Init /\ [][NextViewer]_vars

\* One session of the viewer: loading the list, opening the viewer, saving and
\* uploading
NextWrite ==
  \/ SwitchToList
  \/ \E t \in BagToSet(tasks) : FetchList(t)
  \/ \E t \in BagToSet(tasks), i \in 1..MaxVid : FetchItem(t, i)
  \/ \E i \in 1..Len(KeyOrder) : HandleRowClick(i)
  \/ SaveActions
  \/ UploadActions
SpecWrite == Init /\ [][NextWrite]_vars

NextSave == SwitchToList \/ ListActions \/ ModalActions \/ SaveActions
SpecSave == Init /\ [][NextSave]_vars

\* The search side: listing and searching, in front of two objects
NextSearch == SwitchToList \/ ListActions \/ SearchActions \/ IndexActions
SpecSearch == InitWith(TwoObjects) /\ [][NextSearch]_vars

\* The two upload forms: the uploader, and the viewer's form for a new
\* version of a listed object
NextUpload ==
  \/ SwitchToList
  \/ SwitchToUpload
  \/ \E t \in BagToSet(tasks) : FetchList(t)
  \/ \E t \in BagToSet(tasks), i \in 1..MaxVid : FetchItem(t, i)
  \/ \E i \in 1..Len(KeyOrder) : HandleRowClick(i)
  \/ UploadActions
  \/ UploaderActions
SpecUpload == Init /\ [][NextUpload]_vars

\* Searching next to deleting, refreshing and clearing, over the table
\* before it has indexed anything
NextRace ==
  \/ SwitchToList
  \/ ListActions
  \/ DeleteActions
  \/ \E q \in Queries : SetSearchQuery(q)
  \/ HandleClearSearch
  \/ HandleSearch
  \/ \E t \in BagToSet(tasks) : SearchStartResponse(t)
  \/ \E t \in BagToSet(tasks) : SearchSleepDone(t)
  \/ \E t \in BagToSet(tasks) : SearchPollResponse(t)
  \/ \E t \in BagToSet(tasks) : SearchFinalResponse(t)
  \/ \E t \in BagToSet(tasks) : SearchResultsResponse(t)
SpecRace == Init /\ [][NextRace]_vars

\* Saving in the viewer, closing it and deleting from the list
NextSaveDelete ==
  \/ SwitchToList
  \/ ListActions
  \/ ModalActions
  \/ SaveActions
  \/ DeleteActions
SpecSaveDelete == Init /\ [][NextSaveDelete]_vars

\* Typing a query and submitting it
NextQuery ==
  \/ SwitchToList
  \/ ListActions
  \/ \E q \in QueryInputs : SetSearchQuery(q)
  \/ HandleSearch
  \/ \E t \in BagToSet(tasks) : SearchStartResponse(t)
SpecQuery == Init /\ [][NextQuery]_vars

\* The user_metadata strings a result row can carry: every string of up to
\* MaxMetaLen tokens, and longer ones in Athena's map format and in JSON
MetaSamples ==
  { <<"{", "description", "=", "Hello", " ", "World", "}">>,
    <<"{", "x", "=", "x", ",", " ", "description", " ", "=", " ", "x", " ", ",",
      "x", "=", "x", "}">>,
    <<"{", "description", "=", ",", "description", "=", "x", "}">>,
    <<"{", "\"description\"", ":", "\"x\"", "}">>,
    <<"{", "\"description\"", ":", "\"\"", "}">>,
    <<" ", "{", " ", "\"x\"", " ", ":", " ", "\"x\"", " ", ",", " ",
      "\"description\"", ":", "\"description\"", "}", " ">>,
    <<"{", "\"description\"", ":", "{", "\"x\"", ":", "\"x\"", "}", "}">>,
    <<"{", "\"description\"", ":", "\"x\"", ",", "}">>,
    <<"{", "\"description\"", ":", "null", "}">>,
    <<" ", "null">> }
MetaInputs ==
  UNION {[1..n -> {"{", "}", "description", "=", ",", " ", "x", ":",
                   "\"description\"", "\"x\""}] : n \in 0..MaxMetaLen}
    \cup MetaSamples

\* searchAthena("x") of the mounted list at the await of GetQueryResults, the
\* table holding one row whose user_metadata cell is meta
InitParse(meta) ==
  /\ store = OneObject
  /\ index = {RowWith(KeyOrder[1], 1, <<"x">>, meta)}
  /\ nextVid = 2
  /\ activeTab = "list"
  /\ list = [InitList EXCEPT
               !.objects = <<Entry(KeyOrder[1], 1, <<"x">>, "image/png",
                                   SignedUrl(KeyOrder[1], 1))>>,
               !.loading = FALSE, !.searchQuery = <<"x">>, !.isSearching = TRUE]
  /\ viewer = NoViewer
  /\ tasks = SetToBag({[FreeTask EXCEPT !.kind = "search", !.pc = "results",
                                        !.live = TRUE, !.query = <<"x">>,
                                        !.exec = "SUCCEEDED",
                                        !.queryStatus = "SUCCEEDED",
                                        !.attempts = 1, !.sleeps = 1,
                                        !.sql = QueryString(<<"x">>)]})
  /\ reloadPending = FALSE
  /\ lastDone = FreeTask
  /\ uploader = InitUploader

\* The rows of a search are mapped and joined with the bucket
NextParse ==
  \/ \E t \in BagToSet(tasks) : SearchResultsResponse(t)
  \/ \E t \in BagToSet(tasks), i \in 1..MaxVid : SearchItem(t, i)
SpecParse == (\E meta \in MetaInputs : InitParse(meta)) /\ [][NextParse]_vars

\* Searching and leaving the list: a search over the table before it has
\* indexed anything, and the tab switches that unmount ImageList
NextAbandon ==
  \/ SwitchToList
  \/ SwitchToUpload
  \/ \E t \in BagToSet(tasks) : FetchList(t)
  \/ \E t \in BagToSet(tasks), i \in 1..MaxVid : FetchItem(t, i)
  \/ \E q \in Queries : SetSearchQuery(q)
  \/ HandleSearch
  \/ \E t \in BagToSet(tasks) : SearchStartResponse(t)
  \/ \E t \in BagToSet(tasks) : SearchSleepDone(t)
  \/ \E t \in BagToSet(tasks) : SearchPollResponse(t)
  \/ \E t \in BagToSet(tasks) : SearchFinalResponse(t)
  \/ \E t \in BagToSet(tasks) : SearchResultsResponse(t)
SpecAbandon == Init /\ [][NextAbandon]_vars

\* The search side where every timer fires and every request is answered or
\* rejected
FairSpecSearch ==
  /\ SpecSearch
  /\ WF_vars(\E t \in BagToSet(tasks) : SearchStartResponse(t))
  /\ WF_vars(\E t \in BagToSet(tasks) : SearchSleepDone(t))
  /\ WF_vars(\E t \in BagToSet(tasks) : SearchPollResponse(t))
  /\ WF_vars(\E t \in BagToSet(tasks) : SearchFinalResponse(t))
  /\ WF_vars(\E t \in BagToSet(tasks) : SearchResultsResponse(t))
  /\ WF_vars(\E t \in BagToSet(tasks), i \in 1..MaxVid : SearchItem(t, i))

\* ------------------------------------------------------------------ properties
\* The catalog a completed fetchObjects has set
FetchCompleted ==
  /\ lastDone.kind \in {"fetch", "delete", "search"}
  /\ lastDone.outcome = "ok"
  /\ lastDone.live

\* C1: the catalog held right after fetchObjects completes successfully has at
\* most one entry per key, and each entry's versionId is the version that the
\* ListObjectVersions response of that run flagged IsLatest for the key.
C1_CatalogLatestOnly ==
  FetchCompleted =>
    /\ \A i, j \in DOMAIN list.objects :
         list.objects[i].key = list.objects[j].key => i = j
    /\ \A i \in DOMAIN list.objects :
         \E x \in Range(lastDone.versions) :
           /\ x.Key = list.objects[i].key
           /\ x.VersionId = list.objects[i].versionId
           /\ x.IsLatest

\* A fetch has completed on a listing with an older version, which the
\* catalog of two entries leaves out
C1_Witness ==
  /\ FetchCompleted
  /\ Len(list.objects) = 2
  /\ \E x \in Range(lastDone.versions) : ~x.IsLatest

\* The fan-out of a completed fetchObjects or search join
JoinCompleted ==
  /\ lastDone.kind \in {"fetch", "delete", "search"}
  /\ lastDone.outcome \in {"ok", "joined"}
  /\ lastDone.live
  /\ lastDone.items # <<>>

\* The step in which the last branch of a fan-out resolves sets as catalog the
\* entries of the branches that succeeded, in their order, and sets no error
ItemsDropped ==
  (lastDone' # lastDone /\ JoinCompleted') =>
    LET items == lastDone'.items
        ok == {i \in DOMAIN items : items[i].st = "ok"}
    IN /\ list'.error = list.error
       /\ IF lastDone'.outcome = "joined" THEN ~list'.isSearching ELSE ~list'.loading
       /\ \A i \in DOMAIN items : items[i].st \in {"ok", "null"}
       /\ Len(list'.objects) = Cardinality(ok)
       /\ \A i \in ok : \E n \in DOMAIN list'.objects :
            /\ list'.objects[n].key = items[i].key
            /\ list'.objects[n].versionId = items[i].vid
            /\ Cardinality({j \in ok : j < i}) = n - 1

\* C2: in fetchObjects and in the search join an item whose HeadObject or
\* getSignedUrl fails is left out and the operation completes without an error: the catalog it sets
\* holds exactly the listed (key, versionId) pairs whose head and sign both
\* succeeded.
C2_FailedItemsDropped == [][ItemsDropped]_vars

\* A search join has completed in which one row's branch failed and
\* another's succeeded
C2_Witness ==
  /\ JoinCompleted
  /\ lastDone.outcome = "joined"
  /\ \E i, j \in DOMAIN lastDone.items :
       /\ lastDone.items[i].st = "ok"
       /\ lastDone.items[j].st = "null"
  /\ Len(list.objects) = 1

\* The handleDelete that returned last deleted the latest version of its key,
\* and no other request changed the key's versions while it ran
DeleteCompleted ==
  /\ lastDone.kind = "delete"
  /\ lastDone.outcome = "ok"
  /\ lastDone.live
  /\ ~lastDone.raced
  /\ lastDone.pre # <<>>
  /\ lastDone.pre[Len(lastDone.pre)].vid = lastDone.vid

\* C5: after handleDelete of (K, V) succeeds, V being the latest version of K,
\* the listing that follows has no entry for K when V was its only version;
\* otherwise the listing surfaces the most recent remaining version of K and
\* the catalog's entry for K carries that versionId.
C5_DeleteSurfacesPrevious ==
  DeleteCompleted =>
    LET K == lastDone.key
        rest == SubSeq(lastDone.pre, 1, Len(lastDone.pre) - 1)
        entries == {i \in DOMAIN list.objects : list.objects[i].key = K}
    IN IF rest = <<>>
       THEN entries = {}
       ELSE /\ \E i \in DOMAIN lastDone.items :
                 /\ lastDone.items[i].key = K
                 /\ lastDone.items[i].vid = rest[Len(rest)].vid
                 /\ lastDone.items[i].st = "ok" => entries # {}
            /\ \A i \in entries : list.objects[i].versionId = rest[Len(rest)].vid

\* The latest of two versions was deleted and the catalog shows the older one
C5_Witness ==
  /\ DeleteCompleted
  /\ Len(lastDone.pre) = 2
  /\ \E i \in DOMAIN list.objects :
       /\ list.objects[i].key = lastDone.key
       /\ list.objects[i].versionId = lastDone.pre[1].vid

\* The poll loop of searchAthena and the requests around it
Polling == {"sleep", "poll", "final"}

\* The search that returned last left the poll loop with the query still
\* queued or running
TimedOut ==
  /\ lastDone.kind = "search"
  /\ lastDone.outcome = "queryfail"
  /\ lastDone.queryStatus \in Pending

\* Every status request is preceded by a sleep, and there are at most
\* maxAttempts of them; a loop left with the query still pending has made
\* them all and ends with error set and isSearching false
PollBounded ==
  /\ \A t \in BagToSet(tasks) :
       /\ t.attempts <= maxAttempts
       /\ t.pc \in {"sleep", "poll"} => t.sleeps = t.attempts + 1
       /\ t.pc \in {"final", "results", "join"} =>
            t.sleeps = t.attempts
       /\ t.pc = "final" /\ t.queryStatus \in Pending =>
            t.attempts = maxAttempts
  /\ TimedOut =>
       /\ lastDone.attempts = maxAttempts
       /\ lastDone.sleeps = maxAttempts
       /\ lastDone.live => list.error # NoError /\ ~list.isSearching

\* C6: the poll loop terminates, whatever the backend answers: it makes at
\* most maxAttempts status requests, each preceded by a sleep, and when the
\* status is still QUEUED or RUNNING after the last one the search ends in
\* the query failure with error set and isSearching false.
C6_PollLoopTerminates ==
  /\ []PollBounded
  /\ (\E t \in BagToSet(tasks) : t.kind = "search" /\ t.pc \in Polling)
       ~> (lastDone.kind = "search" /\ \A t \in BagToSet(tasks) : t.kind # "search")

\* A search has ended after maxAttempts status requests with the query still
\* pending
C6_Witness ==
  /\ TimedOut
  /\ lastDone.live
  /\ lastDone.attempts = maxAttempts
  /\ list.error # NoError

\* The errors a search sets when a status request reported the failure,
\* cancellation or an unknown state of the query
ExplicitFailureErrors ==
  {QueryError(reason, status) :
     reason \in Reasons \cup {NoReason}, status \in {"FAILED", "CANCELLED", "UNKNOWN"}}

QueryFailed ==
  /\ lastDone.kind = "search"
  /\ lastDone.outcome = "queryfail"
  /\ lastDone.live

\* The error carries the StateChangeReason or the last polled status
CarriesStatusOrReason ==
  \/ /\ Len(list.error) = 2
     /\ list.error[2] \in Reasons
  \/ /\ Len(list.error) = 3
     /\ list.error[3] = lastDone.queryStatus

SearchJoined ==
  /\ lastDone.kind = "search"
  /\ lastDone.outcome = "joined"
  /\ lastDone.live

Joined ==
  {i \in DOMAIN lastDone.items :
     /\ lastDone.items[i].st = "ok"
     /\ HasVersion(store, lastDone.items[i].key, lastDone.items[i].vid)}

\* C8 as stated: every search row whose version is still in the bucket with
\* a stored description gives an entry with the bucket's description and
\* contentType of that version.
C8_LiveDescriptionWins ==
  SearchJoined =>
    \A i \in Joined :
      LET it == lastDone.items[i]
          ver == GetVersion(store, it.key, it.vid)
      IN ver.desc # <<>> =>
           /\ it.entry.description = ver.desc
           /\ it.entry.contentType = ver.ctype

\* C8: every search row whose version is still in the bucket gives an entry
\* with the bucket's contentType of that version; its description is the one
\* parsed from the row, and the bucket's description only when the parsed one
\* is empty or "No description".
C8_IndexedDescriptionWins ==
  SearchJoined =>
    /\ list.objects = [n \in 1..Cardinality(Joined) |->
                         lastDone.items[CHOOSE i \in Joined :
                                          Cardinality({j \in Joined : j < i}) = n - 1].entry]
    /\ \A i \in Joined :
         LET it == lastDone.items[i]
             ver == GetVersion(store, it.key, it.vid)
             parsed == ParseDescription(RenderMetadata(ver.desc))
         IN /\ it.entry.contentType = ver.ctype
            /\ it.entry.description =
                 IF parsed \in {<<>>, NoDescription} THEN DescriptionOr(ver.desc)
                 ELSE parsed

\* A search has returned a row whose parsed description is not the bucket's,
\* and one whose parsed description is "No description"
C8_Witness ==
  /\ SearchJoined
  /\ \E i \in Joined :
       LET it == lastDone.items[i]
       IN /\ it.entry.description # NoDescription
          /\ it.entry.description # GetVersion(store, it.key, it.vid).desc
          /\ it.entry.contentType = GetVersion(store, it.key, it.vid).ctype

\* C3 as stated: after handleSaveDescription has written D, a fetchObjects
\* that lists the version it wrote as the latest of its key (no writer in
\* between) gives the key's entry the description D and the contentType the
\* key had before the save.
C3_SaveRoundTrip ==
  FetchCompleted =>
    \A i \in DOMAIN lastDone.items :
      LET it == lastDone.items[i]
      IN (/\ it.st = "ok"
          /\ HasVersion(store, it.key, it.vid)
          /\ GetVersion(store, it.key, it.vid).op = "copy") =>
           /\ it.entry.description = GetVersion(store, it.key, it.vid).desc
           /\ it.entry.contentType = GetVersion(store, it.key, it.vid).was
           /\ \E n \in DOMAIN list.objects : list.objects[n] = it.entry

\* The version ids in the bucket s
AllVids(s) == {s[k][i].vid : <<k, i>> \in {<<k, i>> \in Keys \X (1..MaxVid) : i <= Len(s[k])}}

\* A step in which the bucket hands out a version id: a successful write
WriteAddsVersion ==
  nextVid' # nextVid =>
    \E k \in Keys :
      /\ store[k] # <<>>
      /\ \A j \in Keys \ {k} : store'[j] = store[j]
      /\ Len(store'[k]) = Len(store[k]) + 1
      /\ LatestOf(store', k).vid \notin AllVids(store)
      /\ \A i \in 1..Len(store[k]) :
           /\ HasVersion(store', k, store[k][i].vid)
           /\ GetVersion(store', k, store[k][i].vid) = store[k][i]
      /\ \A x \in Range(ListObjectVersions(store')) :
           x.Key = k => (x.IsLatest <=> x.VersionId = LatestOf(store', k).vid)
      /\ \A x \in Range(LatestVersions(ListObjectVersions(store'))) :
           x.Key = k => x.VersionId \notin AllVids(store)

\* C4: every successful write to an existing key (the copy of
\* handleSaveDescription, the upload of handleUploadNewVersion) adds a version
\* with a fresh versionId that is the key's only latest one; the versions
\* that were there keep what they hold, are still served by versionId and are
\* not among the latest versions fetchObjects goes on with.
C4_WriteAddsVersion == [][WriteAddsVersion]_vars

\* A key holds its first version, one written by a save and one written by an
\* upload
C4_Witness ==
  \E k \in Keys :
    /\ Len(store[k]) = 3
    /\ store[k][1].op = "init"
    /\ {store[k][2].op, store[k][3].op} = {"copy", "put"}

\* The handleSaveDescription that returned last, its viewer still mounted
SaveReturned ==
  /\ lastDone.kind = "save"
  /\ lastDone.live

\* The copy of the save that returned last was made
CopyMade ==
  /\ lastDone.newVid # NoVid
  /\ HasVersion(store, lastDone.key, lastDone.newVid)
  /\ GetVersion(store, lastDone.key, lastDone.newVid).op = "copy"

SaveReported ==
  SaveReturned =>
    /\ ~viewer.saving
    /\ viewer.saveSuccess <=> (CopyMade /\ lastDone.outcome = "ok")
    /\ ~viewer.saveSuccess <=> viewer.saveError # NoError
    /\ lastDone.outcome = "ok" => viewer.imageUrl.key = lastDone.key /\ ~viewer.imageLoading

\* C9: saveSuccess becomes true only in the step in which a save returns
\* whose copy and whose URL refresh both succeeded; a save of which either
\* failed returns with saveSuccess false and saveError set.
C9_SuccessNeedsCopyAndRefresh ==
  /\ []SaveReported
  /\ [][(~viewer.saveSuccess /\ viewer'.saveSuccess) =>
          (lastDone'.kind = "save" /\ lastDone'.outcome = "ok"
             /\ HasVersion(store', lastDone'.key, lastDone'.newVid))]_vars

\* A save has returned whose copy was made and whose URL refresh failed
C9_Witness ==
  /\ SaveReturned
  /\ CopyMade
  /\ lastDone.outcome = "refreshfail"
  /\ ~viewer.saveSuccess
  /\ viewer.saveError # NoError

\* C10 as stated: after a successful handleSaveDescription the viewer shows
\* the versionId the copy created, and its image URL is signed for that
\* (key, versionId).
C10_ViewerHoldsNewVersion ==
  (SaveReturned /\ lastDone.outcome = "ok") =>
    /\ list.selectedImage.versionId = lastDone.newVid
    /\ viewer.imageUrl = SignedUrl(lastDone.key, lastDone.newVid)

\* A mutation started from the UI has finished successfully, its component
\* still mounted and no other writer on its key meanwhile
MutationDone ==
  /\ lastDone.kind \in {"save", "upload", "delete"}
  /\ lastDone.outcome = "ok"
  /\ lastDone.live
  /\ ~lastDone.raced

\* C11 as stated: once a successful save, upload or delete has finished, the
\* catalog's entry for the affected key carries the versionId and the
\* description of the key's latest version in the bucket (and there is no
\* entry when the key has no version left).
C11_CatalogSynchronised ==
  MutationDone =>
    LET K == lastDone.key
        entries == {n \in DOMAIN list.objects : list.objects[n].key = K}
    IN IF store[K] = <<>> THEN entries = {}
       ELSE \E n \in entries :
              /\ list.objects[n].versionId = LatestOf(store, K).vid
              /\ list.objects[n].description = DescriptionOr(LatestOf(store, K).desc)

\* The handleDelete that returned last had its DeleteObject rejected with
\* NotFound, its version being gone already
DeleteNotFound ==
  /\ lastDone.kind = "delete"
  /\ lastDone.live
  /\ lastDone.cause = NotFound

\* C12 as stated: a handleDelete whose request is rejected with NotFound
\* ends as a successful delete does: nothing is alerted and the listing has
\* been fetched again.
C12_NotFoundIsSuccess ==
  DeleteNotFound =>
    /\ lastDone.outcome = "ok"
    /\ lastDone.versions = ListObjectVersions(store)

\* C13 as stated: after ImageList is unmounted no status request of a search
\* it started is sent: every GetQueryExecution of the poll loop is sent by a
\* search whose component is mounted.
C13_NoPollAfterAbandon ==
  [][\A t \in BagToSet(tasks) : SearchSleepDone(t) => t.live]_vars

\* The (key, versionId) pairs of a catalog
Pairs(objects) == {<<objects[n].key, objects[n].versionId>> : n \in DOMAIN objects}

\* The (key, versionId) pairs fetchObjects gives on the bucket s when the
\* branches of its fan-out numbered in failed fail
FetchedPairs(s, failed) ==
  LET latest == LatestVersions(ListObjectVersions(s))
  IN {<<latest[i].Key, latest[i].VersionId>> : i \in DOMAIN latest \ failed}

\* C14: a search whose query is empty or only whitespace never submits a
\* query or polls: it runs fetchObjects, and the catalog it sets has the
\* (key, versionId) pairs fetchObjects gives on the same bucket.
C14_BlankSearchIsListing ==
  /\ \A t \in BagToSet(tasks) :
       (t.kind = "search" /\ Trim(t.query) = <<>>) =>
         /\ t.pc \in {"list", "enrich"}
         /\ t.exec = "none" /\ t.sleeps = 0 /\ t.attempts = 0
  /\ (lastDone.kind = "search" /\ lastDone.live /\ Trim(lastDone.query) = <<>>) =>
       /\ lastDone.outcome \in {"ok", "listfail"}
       /\ lastDone.exec = "none" /\ lastDone.sleeps = 0 /\ lastDone.attempts = 0
       /\ lastDone.outcome = "ok" =>
            Pairs(list.objects) =
              FetchedPairs(store, {i \in DOMAIN lastDone.items :
                                     lastDone.items[i].st # "ok"})

\* A search for a single blank has completed and set the two latest
\* versions as the catalog
C14_Witness ==
  /\ lastDone.kind = "search"
  /\ lastDone.live
  /\ lastDone.query = <<" ">>
  /\ lastDone.outcome = "ok"
  /\ Pairs(list.objects) = FetchedPairs(store, {})
  /\ Len(list.objects) = 2

\* A step in which a fetchObjects of the mounted list is called, and one in
\* which it returns
FetchCalled ==
  \E t \in BagToSet(tasks') \ BagToSet(tasks) :
    t.pc = "list" /\ t.live /\ t.versions = <<>>
FetchReturns ==
  /\ lastDone' # lastDone
  /\ lastDone'.kind \in {"fetch", "delete", "search"}
  /\ lastDone'.outcome \in {"ok", "listfail"}
  /\ lastDone'.live

\* fetchObjects clears the error when it is called; when it returns it has
\* set the error, to the message of the rejection, exactly when its
\* ListObjectVersions was rejected, and has set loading false
ErrorOnlyFromListing ==
  /\ FetchCalled => list'.error = NoError /\ list'.loading
  /\ FetchReturns =>
       /\ ~list'.loading
       /\ IF lastDone'.outcome = "listfail"
          THEN /\ lastDone'.cause \in ErrMsgs
               /\ list'.error = lastDone'.cause
               /\ lastDone'.versions = <<>> /\ lastDone'.items = <<>>
          ELSE /\ lastDone'.cause = NoError
               /\ list'.error = list.error
               /\ \A i \in DOMAIN lastDone'.items :
                    lastDone'.items[i].st \in {"ok", "null"}

\* C15: fetchObjects sets the error exactly when its ListObjectVersions call
\* fails, and then to the message of that failure; when the call succeeds it
\* sets no error, however many branches of the fan-out fail.
C15_ErrorOnlyFromListing == [][ErrorOnlyFromListing]_vars

\* A fetchObjects has returned all of whose branches failed: the catalog is
\* empty and there is no error
C15_Witness ==
  /\ FetchCompleted
  /\ Len(lastDone.items) = 2
  /\ \A i \in DOMAIN lastDone.items : lastDone.items[i].st = "null"
  /\ list.objects = <<>>
  /\ list.error = NoError
  /\ ~list.loading

RECURSIVE LiteralEnd(_, _)
\* The position in the query text at which the SQL string literal ends whose
\* body starts at position i: the first quote that is not followed by a
\* quote (two quotes stand for one quote of the string); 0 when the literal
\* is not closed
LiteralEnd(text, i) ==
  IF i > Len(text) THEN 0
  ELSE IF text[i] # "'" THEN LiteralEnd(text, i + 1)
  ELSE IF i < Len(text) /\ text[i + 1] = "'" THEN LiteralEnd(text, i + 2)
  ELSE i

RECURSIVE LiteralValue(_, _)
\* The string that literal stands for
LiteralValue(text, i) ==
  IF i > Len(text) THEN <<>>
  ELSE IF text[i] # "'" THEN <<text[i]>> \o LiteralValue(text, i + 1)
  ELSE IF i < Len(text) /\ text[i + 1] = "'" THEN <<"'">> \o LiteralValue(text, i + 2)
  ELSE <<>>

\* The number of quotes in a text
Quotes(text) == Cardinality({i \in DOMAIN text : text[i] = "'"})

\* The query text of a search is the template with the user's text in it,
\* each quote twice: the literal opened before the text is closed by the
\* template's quote after it, and stands for the pattern %text%
QuotesDoubled(t) ==
  t.sql # <<>> =>
    /\ t.sql[2] = "'"
    /\ Len(t.sql) = 6 + Len(t.query) + Quotes(t.query)
    /\ Quotes(SubSeq(t.sql, 4, Len(t.sql) - 3)) = 2 * Quotes(t.query)
    /\ LiteralEnd(t.sql, 3) = Len(t.sql) - 1
    /\ LiteralValue(t.sql, 3) = <<"%">> \o t.query \o <<"%">>

\* C16: in the query text searchAthena submits every quote of the user's
\* input is doubled, so that the input stays inside the string literal of the
\* LIKE predicate.
C16_QuotesDoubled ==
  /\ \A t \in BagToSet(tasks) :
       /\ QuotesDoubled(t)
       /\ (t.kind = "search" /\ t.pc = "start") => t.sql # <<>>
  /\ QuotesDoubled(lastDone)

\* A query of a quote, a letter and a quote has been submitted
C16_Witness ==
  \E t \in BagToSet(tasks) :
    /\ t.kind = "search" /\ t.pc = "start"
    /\ t.query = <<"'", "x", "'">>
    /\ Len(t.sql) = 11

\* The search that returned last got a result set without data rows
SearchEmpty ==
  /\ lastDone.kind = "search"
  /\ lastDone.outcome = "empty"
  /\ lastDone.live

\* C17: a search whose query SUCCEEDED with no data row sets the empty
\* catalog and no error, leaves isSearching false, and sends no request to
\* the bucket: it returns in the step in which the results arrive.
C17_EmptyResultIsEmptyCatalog ==
  /\ [](SearchEmpty =>
         /\ lastDone.queryStatus = "SUCCEEDED"
         /\ list.objects = <<>>
         /\ list.error = NoError
         /\ ~list.isSearching
         /\ lastDone.versions = <<>> /\ lastDone.items = <<>>)
  /\ [][(lastDone' # lastDone /\ SearchEmpty') =>
          /\ store' = store
          /\ \E t \in BagToSet(tasks) :
               /\ t.pc = "results"
               /\ tasks' = Drop(tasks, t)
               /\ lastDone' = Done(t, "empty")]_vars

\* A search for x has succeeded without a data row while the table holds a
\* row, and has replaced a catalog of two entries by the empty one
C17_Witness ==
  /\ SearchEmpty
  /\ lastDone.query = <<"x">>
  /\ index # {}
  /\ list.objects = <<>>

\* A step in which handleSubmit or handleUploadNewVersion rejects its input
Rejects == lastDone' # lastDone /\ lastDone'.outcome = "invalid"

\* The rejection sends nothing and leaves the bucket as it is; it shows the
\* message of what is missing
RejectedBeforeRequest ==
  Rejects =>
    /\ store' = store /\ nextVid' = nextVid
    /\ tasks' = tasks
    /\ lastDone'.pc = "done" /\ lastDone'.newVid = NoVid
    /\ lastDone'.kind = "submit" =>
         /\ lastDone'.file = NoFile \/ Trim(lastDone'.desc) = <<>>
         /\ lastDone'.file = NoFile <=> uploader'.errors.file # NoError
         /\ Trim(lastDone'.desc) = <<>> <=> uploader'.errors.description # NoError
         /\ ~uploader'.uploading
    /\ lastDone'.kind = "upload" =>
         /\ lastDone'.file = NoFile
         /\ viewer'.uploadError = NoFileMessage
         /\ viewer'.uploading = viewer.uploading

\* The uploads in flight were started with a file, those of the uploader
\* also with a description that is not blank
UploadsHaveInput ==
  \A t \in BagToSet(tasks) \cup {lastDone} :
    /\ (t.kind = "upload" /\ t.outcome # "invalid") => t.file # NoFile
    /\ (t.kind = "submit" /\ t.outcome # "invalid") =>
         t.file # NoFile /\ Trim(t.desc) # <<>>

\* C18: handleSubmit without a file or with an empty or blank description,
\* and handleUploadNewVersion without a file, send no request: they set an
\* error message and return, and the bucket is unchanged.
C18_InvalidInputSendsNothing ==
  /\ []UploadsHaveInput
  /\ [][RejectedBeforeRequest]_vars

\* handleSubmit has rejected a picked file with a description of one blank
C18_Witness ==
  /\ lastDone.kind = "submit"
  /\ lastDone.outcome = "invalid"
  /\ lastDone.file # NoFile
  /\ lastDone.desc = <<" ">>
  /\ uploader.errors.description # NoError
  /\ uploader.errors.file = NoError
  /\ tasks = EmptyBag

\* The handleUploadNewVersion that returned last wrote a new version of a
\* key that had one
UploadedNewVersion ==
  /\ lastDone.kind = "upload"
  /\ lastDone.outcome = "ok"
  /\ lastDone.pre # <<>>
  /\ HasVersion(store, lastDone.key, lastDone.newVid)

\* C19 as stated: the version an upload through the viewer creates has the
\* description that was stored on the key's latest version before it,
\* whatever was typed in the textarea.
C19_UploadKeepsDescription ==
  UploadedNewVersion =>
    GetVersion(store, lastDone.key, lastDone.newVid).desc =
      lastDone.pre[Len(lastDone.pre)].desc

\* C20 as stated: every version a save writes carries the Content-Type the
\* key's latest version had at the moment of the copy.
C20_CopyKeepsContentType ==
  \A k \in Keys : \A i \in 1..Len(store[k]) :
    store[k][i].op = "copy" =>
      /\ store[k][i].ctype # Null
      /\ store[k][i].ctype = store[k][i].was

\* Where the search tasks are in their poll loop agrees with the status they
\* polled last: the loop sleeps on only after QUEUED or RUNNING, the results
\* are asked for only after SUCCEEDED, every other status leads to the
\* request for the error details
LoopFollowsStatus ==
  \A t \in BagToSet(tasks) \cup {lastDone} :
    t.kind = "search" =>
      /\ t.pc = "start" => t.queryStatus = "RUNNING" /\ t.attempts = 0
      /\ t.pc \in {"sleep", "poll"} =>
           t.queryStatus \in Pending /\ t.attempts < maxAttempts
      /\ t.pc = "final" => t.queryStatus # "SUCCEEDED"
      /\ t.pc \in {"results", "join"} => t.queryStatus = "SUCCEEDED"
      /\ t.outcome \in {"queryfail", "finalthrow"} => t.queryStatus # "SUCCEEDED"
      /\ t.outcome \in {"empty", "joined", "resultsthrow"} =>
           t.queryStatus = "SUCCEEDED" /\ t.exec = "SUCCEEDED"
      /\ (t.outcome \in {"queryfail", "finalthrow"} /\ t.queryStatus \notin Pending) =>
           t.sleeps = t.attempts /\ t.items = <<>>

\* A poll response is followed by a sleep, by the request for the error
\* details or by the request for the results, as its status says
PollStep ==
  \A t \in BagToSet(tasks) :
    (t.kind = "search" /\ t.pc = "poll" /\ t.live /\ SearchPollResponse(t)) =>
      \/ lastDone' # lastDone /\ lastDone'.outcome = "pollthrow"
      \/ \E n \in BagToSet(tasks') :
           /\ n.attempts = t.attempts + 1
           /\ n.pc = (IF n.queryStatus = "SUCCEEDED" THEN "results"
                      ELSE IF n.queryStatus \in Pending /\ n.attempts < maxAttempts
                      THEN "sleep" ELSE "final")

\* C21: the poll loop goes on only while the last polled status is QUEUED or
\* RUNNING; the results are fetched only after a poll returned SUCCEEDED; a
\* poll returning FAILED, CANCELLED or an unknown or missing status ends the
\* loop at once and leads to the query failure, never to a result fetch.
C21_LoopFollowsStatus ==
  /\ []LoopFollowsStatus
  /\ [][PollStep]_vars
  /\ [](QueryFailed => list.error # NoError /\ Len(list.error) \in {2, 3})

\* A search has ended in the query failure after its first poll, which
\* returned no status
C21_Witness ==
  /\ QueryFailed
  /\ lastDone.queryStatus = "UNKNOWN"
  /\ lastDone.attempts = 1
  /\ list.error # NoError

\* A step in which a save of the mounted viewer returns because its
\* CopyObject was rejected
CopyFails ==
  /\ lastDone' # lastDone
  /\ lastDone'.kind = "save"
  /\ lastDone'.outcome = "copyfail"
  /\ lastDone'.live

\* The save ends in the step in which the rejection arrives: nothing is
\* written, no timer is started and no URL signed, the message is shown
CopyFailureAborts ==
  CopyFails =>
    /\ store' = store /\ nextVid' = nextVid
    /\ \E t \in BagToSet(tasks) :
         /\ t.kind = "save" /\ t.pc = "copy"
         /\ tasks' = Drop(tasks, t)
    /\ \A t \in BagToSet(tasks') :
         ~(t.kind = "save" /\ t.live /\ t.pc \in {"delay", "refresh"})
    /\ lastDone'.newVid = NoVid
    /\ viewer'.imageUrl = viewer.imageUrl
    /\ viewer'.imageLoading = viewer.imageLoading
    /\ lastDone'.cause \in ErrMsgs
    /\ viewer'.saveError = lastDone'.cause
    /\ ~viewer'.saveSuccess
    /\ viewer.saving /\ ~viewer'.saving

\* C22: when the CopyObject of handleSaveDescription is rejected the save
\* ends there: no delay and no URL refresh follow, the bucket and the
\* viewer's URL are as they were, saveError is the message of the rejection,
\* saveSuccess stays false and saving is false again.
C22_CopyFailureAborts == [][CopyFailureAborts]_vars

\* A save has returned on the rejection of its copy and the viewer shows the
\* message
C22_Witness ==
  /\ SaveReturned
  /\ lastDone.outcome = "copyfail"
  /\ viewer.saveError = lastDone.cause
  /\ lastDone.cause # NoError
  /\ ~viewer.saving /\ ~viewer.saveSuccess
  /\ store = OneObject

\* The searches of the mounted list that have submitted a query and not
\* returned
ActiveSearches(ts) ==
  [t \in {x \in BagToSet(ts) : x.kind = "search" /\ x.live /\ x.sql # <<>>} |-> ts[t]]

\* C23: at no time does the mounted ImageList have two searches in their
\* poll loop: while one is there isSearching is true, and a search starts
\* only while isSearching is false, whatever deletes, refreshes and clears
\* are in flight.
C23_OneSearchAtATime ==
  /\ [](/\ BagCardinality(ActiveSearches(tasks)) <= 1
        /\ ActiveSearches(tasks) # EmptyBag => list.isSearching)
  /\ [][BagCardinality(ActiveSearches(tasks')) > BagCardinality(ActiveSearches(tasks))
          => ~list.isSearching /\ list'.isSearching]_vars

\* A search is in its poll loop while the listing that follows a delete is
\* in flight
C23_Witness ==
  /\ list.isSearching /\ list.loading
  /\ \E t \in BagToSet(ActiveSearches(tasks)) : t.pc = "poll" /\ t.attempts > 0
  /\ \E t \in BagToSet(tasks) : t.kind = "delete" /\ t.live /\ t.pc = "list"

\* C24 as stated: every delete started from a row of the catalog asks for
\* the version that is the latest of the row's key in the bucket at that
\* moment, whatever saves and uploads were made through the viewer before.
C24_DeleteTargetsLatest ==
  [][\A t \in BagToSet(tasks') \ BagToSet(tasks) :
       (t.kind = "delete" /\ t.pc = "delete") =>
         /\ store[t.key] # <<>>
         /\ t.vid = LatestOf(store, t.key).vid]_vars

\* C25 as stated: every entry of the catalog a search has set is the latest
\* version of its key, and no key has two entries, also when the table holds
\* rows of several versions of a key that are still in the bucket.
C25_SearchShowsLatestOnly ==
  SearchJoined =>
    /\ \A i, j \in DOMAIN list.objects :
         list.objects[i].key = list.objects[j].key => i = j
    /\ \A i \in DOMAIN list.objects :
         LET e == list.objects[i]
         IN HasVersion(store, e.key, e.versionId) =>
              e.versionId = LatestOf(store, e.key).vid

\* No fetchObjects, handleDelete or search of the mounted list is in flight
\* and the catalog is displayed
ListSettled ==
  /\ \A t \in BagToSet(tasks) : ~(t.live /\ t.kind \in ListKinds)
  /\ lastDone.live /\ lastDone.kind \in ListKinds
  /\ lastDone.outcome \in {"ok", "joined", "empty"}
  /\ ~list.loading /\ ~list.isSearching
  /\ list.error = NoError

\* C26 as stated: when a handleDelete of (K, V) has completed with its
\* listing and the fetchObjects and searches that were in flight with it have
\* finished too, the catalog has no entry for (K, V).
C26_DeletedEntryGone ==
  ListSettled =>
    \A p \in lastDone.gone :
      \A n \in DOMAIN list.objects :
        <<list.objects[n].key, list.objects[n].versionId>> # p

\* C27 as stated: when the viewer shows saveSuccess for a save no other
\* writer has interfered with, the description stored on the latest version
\* of the key is the text in the textarea, also when the textarea was edited
\* while the save was in flight.
C27_SuccessMeansTextareaStored ==
  (/\ ViewerShown(list) /\ viewer.saveSuccess
   /\ lastDone.live /\ lastDone.kind = "save" /\ ~lastDone.raced
   /\ lastDone.outcome = "ok")
    => /\ store[lastDone.key] # <<>>
       /\ LatestOf(store, lastDone.key).desc = viewer.description

\* C28 as stated: while the DeleteObject request of a handleDelete of the
\* mounted list for key K is in flight, deletingKey is K, whatever deletes of
\* other keys start or finish meanwhile.
C28_DeletingKeyGuardsRequest ==
  \A t \in BagToSet(tasks) :
    (t.live /\ t.kind = "delete" /\ t.pc = "delete") => list.deletingKey = t.key

\* The textarea differs from the description the latest version of the
\* viewer's object stores, read as fetchObjects reads it
TextareaDiffers ==
  /\ store[list.selectedImage.key] # <<>>
  /\ viewer.description #
       DescriptionOr(LatestOf(store, list.selectedImage.key).desc)

\* C29 as stated, for an edit that follows a successful save in the same
\* viewer: with no save in flight, the Save Description button is enabled
\* whenever the edited textarea differs from the description stored for the
\* object.
C29_SaveEnabledWhenDifferent ==
  [][(/\ ViewerShown(list)
      /\ lastDone.live /\ lastDone.kind = "save" /\ lastDone.outcome = "ok"
      /\ ~lastDone.raced
      /\ \A t \in BagToSet(tasks) : t.kind # "save"
      /\ \E d \in Descs : HandleDescriptionChange(d))
       => (TextareaDiffers' => SaveEnabled')]_vars

\* The text that follows description= at position i of a user_metadata
\* string, blanks allowed on both sides of the = sign, up to the next comma
\* or closing brace; <<>> when position i has no description= or no text
\* follows it
RECURSIVE UpToStop(_, _)
UpToStop(str, k) ==
  IF k > Len(str) \/ str[k] \in {",", "}"} THEN <<>>
  ELSE <<str[k]>> \o UpToStop(str, k + 1)
TextAfter(str, i) ==
  IF \E j \in (i + 1)..Len(str) :
       /\ str[i] = "description" /\ str[j] = "="
       /\ \A n \in (i + 1)..(j - 1) : str[n] = " "
  THEN UpToStop(str, 1 + CHOOSE j \in (i + 1)..Len(str) :
                          /\ str[j] = "="
                          /\ \A n \in (i + 1)..(j - 1) : str[n] = " ")
  ELSE <<>>

\* {description=Hello World}
HelloWorld == <<"{", "description", "=", "Hello", " ", "World", "}">>

\* What the claim has the extraction give for the user_metadata string str
Extracted(str, r) ==
  IF IsJson(str)
  THEN r = IF JsonDescription(str) \in {Undefined, <<>>} THEN NoDescription
           ELSE JsonDescription(str)
  ELSE IF \E i \in 1..Len(str) : TextAfter(str, i) # <<>>
       THEN LET first == CHOOSE i \in 1..Len(str) :
                           /\ TextAfter(str, i) # <<>>
                           /\ \A n \in 1..(i - 1) : TextAfter(str, n) = <<>>
            IN r = Trim(TextAfter(str, first))
       ELSE r = NoDescription

\* C30: for every user_metadata string the extraction of searchAthena ends
\* with a description: the description field of the string parsed as JSON;
\* when it is not JSON, the trimmed text that follows description= (blanks
\* allowed around the = sign) up to the next comma or closing brace;
\* otherwise "No description". {description=Hello World} gives Hello World.
C30_ExtractionInOrder ==
  \A t \in BagToSet(tasks) :
    (t.kind = "search" /\ t.pc = "join") =>
      \A i \in 1..Len(t.items) :
        \A r \in index :
          (r.key = t.items[i].key /\ r.vid = t.items[i].vid) =>
            /\ Extracted(r.meta, t.items[i].idesc)
            /\ r.meta = HelloWorld =>
                 t.items[i].idesc = <<"Hello", " ", "World">>

\* Rows in Athena's map format, in JSON with a description, and with neither
\* have been mapped
C30_Witness ==
  \E t \in BagToSet(tasks) :
    /\ t.kind = "search" /\ t.pc = "join" /\ Len(t.items) = 1
    /\ \E r \in index :
         /\ r.meta = HelloWorld
         /\ t.items[1].idesc = <<"Hello", " ", "World">>

====
